---- MODULE Spec2Model ----
(***************************************************************************)
(* Infinite Pong (src/src/main.rs): two balls on a grid of tiles.  A tile  *)
(* carries a texture index (0 = team A / Player1, 1 = team B / Player2)    *)
(* and a CollisionLayers filter; ball_collision toggles both for every     *)
(* tile found among a ball's colliding entities.                           *)
(*                                                                         *)
(* Geometry is kept on a lattice whose unit is half a tile (tile_size/2 =  *)
(* 8.0), with its origin in the lower left corner of the field: tile       *)
(* (ix, iy) covers [2ix, 2ix+2] x [2iy, 2iy+2], the outer wall is the      *)
(* rectangle [0, 2*GridW] x [0, 2*GridH], the world's x = 0 is the lattice *)
(* line x = GridW.  A ball (radius 7.5 < 8.0) is a disc of radius just     *)
(* under one unit.                                                         *)
(***************************************************************************)
EXTENDS Integers, FiniteSets, Sequences, TLC

\* map_size (32 x 18 in the source), scaled down.
GridW == 4
GridH == 2
\* number of frames explored
MaxTicks == 12
\* widest map the spawn rule is evaluated for
MaxWidth == 7

\* runs: the runs of ball_collision since CollidingEntities was last written
VARIABLES texture_index, layers, tile_pos, transform, velocity, colliding,
          flips, runs, pc, tick

vars == <<texture_index, layers, tile_pos, transform, velocity, colliding,
          flips, runs, pc, tick>>

(***************************** entities ************************************)

Layer == {"Player1", "Player2", "All"}

NumTiles == GridW * GridH

\* the spawn loops stopping one tile short
TileEntities_OneShort == 1 .. (NumTiles - 1)

\* for x in 0..map_size.x { for y in 0..map_size.y { spawn } }
TileEntities == 1 .. NumTiles

BallA == NumTiles + 1
BallB == NumTiles + 2
Wall  == NumTiles + 3

Balls == {BallA, BallB}

Entities == TileEntities \cup Balls \cup {Wall}

\* TilePos { x, y } of the k-th tile spawned (x is the outer loop)
SpawnPos(k) == [x |-> (k - 1) \div GridH, y |-> (k - 1) % GridH]

(*************************** collision layers ******************************)

CollisionLayersNew(m, f) == [memberships |-> m, filters |-> f]

TeamALayers == CollisionLayersNew({"Player1"}, {"Player2"})

TeamBLayers == CollisionLayersNew({"Player2"}, {"Player1"})

\* ball A filtering for the wall only
BallALayers_WallOnly == CollisionLayersNew({"Player1"}, {"All"})

\* ball A filtering for its own team's layer
BallALayers_OwnTeam == CollisionLayersNew({"Player1"}, {"Player1", "All"})

BallALayers == CollisionLayersNew({"Player1"}, {"Player2", "All"})

\* ball B taking the wall only
BallBLayers_WallOnly == CollisionLayersNew({"Player2"}, {"All"})

BallBLayers == CollisionLayersNew({"Player2"}, {"Player1", "All"})

\* the wall filtering for one player only
WallLayers_Player1Only == CollisionLayersNew({"All"}, {"Player1"})

WallLayers == CollisionLayersNew({"All"}, {"Player1", "Player2"})

\* two bodies interact iff each one's memberships meet the other's filters
Interacts(a, b) ==
    /\ a.memberships \cap b.filters # {}
    /\ b.memberships \cap a.filters # {}

\* the comparison taking the middle column in
TextureIndexOf_Inclusive(x, map_x) == IF x <= (map_x \div 2) THEN 0 ELSE 1

\* texture_index: if x < (map_size.x / 2) { 0 } else { 1 }, for a map
\* map_x tiles wide
TextureIndexOf(x, map_x) == IF x < (map_x \div 2) THEN 0 ELSE 1

\* CollisionLayers::new of a tile in column x of a map map_x tiles wide
TileLayersOf(x, map_x) == IF x < (map_x \div 2) THEN TeamALayers ELSE TeamBLayers

InitialTextureIndex(x) == TextureIndexOf(x, GridW)

InitialTileLayers(x) == TileLayersOf(x, GridW)

(******************************* startup ***********************************)

Gravity == [x |-> 0, y |-> 0]

Restitution == 1

Friction == 0

\* Transform::from_xyz(-tile_size.x * (map_size.x / 4), 0., 10.)
BallAStart == [x |-> GridW - 2 * (GridW \div 4), y |-> GridH]

\* Transform::from_xyz(tile_size.x * (map_size.x / 4), 0., 10.)
BallBStart == [x |-> GridW + 2 * (GridW \div 4), y |-> GridH]

\* LinearVelocity(-200, -200) and (200, 200): one lattice direction each
BallAVelocity == [x |-> -1, y |-> -1]

BallBVelocity == [x |-> 1, y |-> 1]

Init ==
    /\ texture_index = [t \in TileEntities |-> InitialTextureIndex(SpawnPos(t).x)]
    /\ layers = [e \in Entities |->
                   IF e \in TileEntities THEN InitialTileLayers(SpawnPos(e).x)
                   ELSE IF e = BallA THEN BallALayers
                   ELSE IF e = BallB THEN BallBLayers
                   ELSE WallLayers]
    /\ tile_pos = [t \in TileEntities |-> SpawnPos(t)]
    /\ transform = [b \in Balls |-> IF b = BallA THEN BallAStart ELSE BallBStart]
    /\ velocity = [b \in Balls |-> IF b = BallA THEN BallAVelocity ELSE BallBVelocity]
    /\ colliding = [b \in Balls |-> {}]
    /\ flips = [t \in TileEntities |-> 0]
    /\ runs = 0
    /\ pc = "update"
    /\ tick = 0

(***************************** ball_collision ******************************)

\* the components ball_collision reads and writes, and the ghost count of
\* the changes one run makes to each tile
World == [texture_index |-> texture_index, layers |-> layers, flips |-> flips]

\* tiles.get_mut(entity) is Ok for the entities that carry a TileTextureIndex
IsTile(w, e) == e \in DOMAIN w.texture_index

\* the texture index toggled, the layers left as they were
FlipTile_TextureOnly(w, e) ==
    [w EXCEPT !.texture_index[e] = 1 - @, !.flips[e] = @ + 1]

\* a run that stops changing tiles after its first change
FlipTile_StopAfterFirst(w, e) ==
    IF \E t \in DOMAIN w.flips : w.flips[t] > 0 THEN w
    ELSE [texture_index |-> [w.texture_index EXCEPT ![e] = 1 - @],
          layers        |-> [w.layers EXCEPT ![e] =
                               IF w.texture_index[e] = 0
                               THEN [memberships |-> {"Player2"}, filters |-> {"Player1"}]
                               ELSE [memberships |-> {"Player1"}, filters |-> {"Player2"}]],
          flips         |-> [w.flips EXCEPT ![e] = @ + 1]]

\* every contact turning the tile to team B
FlipTile_AlwaysB(w, e) ==
    [texture_index |-> [w.texture_index EXCEPT ![e] = 1],
     layers        |-> [w.layers EXCEPT ![e] =
                          [memberships |-> {"Player2"}, filters |-> {"Player1"}]],
     flips         |-> [w.flips EXCEPT ![e] = @ + 1]]

\* first contact wins: a tile already changed in this run is left alone
FlipTile_FirstWins(w, e) ==
    IF w.flips[e] > 0 THEN w
    ELSE [texture_index |-> [w.texture_index EXCEPT ![e] = 1 - @],
          layers        |-> [w.layers EXCEPT ![e] =
                               IF w.texture_index[e] = 0
                               THEN [memberships |-> {"Player2"}, filters |-> {"Player1"}]
                               ELSE [memberships |-> {"Player1"}, filters |-> {"Player2"}]],
          flips         |-> [w.flips EXCEPT ![e] = @ + 1]]

\* match texture_index.0 { 0 => ..., 1 => ..., _ => {} }
FlipTile(w, e) ==
    CASE w.texture_index[e] = 0 ->
           [texture_index |-> [w.texture_index EXCEPT ![e] = 1],
            layers        |-> [w.layers EXCEPT ![e] = TeamBLayers],
            flips         |-> [w.flips EXCEPT ![e] = @ + 1]]
      [] w.texture_index[e] = 1 ->
           [texture_index |-> [w.texture_index EXCEPT ![e] = 0],
            layers        |-> [w.layers EXCEPT ![e] = TeamALayers],
            flips         |-> [w.flips EXCEPT ![e] = @ + 1]]
      [] OTHER -> w

\* a colliding entity that is no tile taken for the first tile of the query
VisitEntity_FirstTileOnMiss(w, e) ==
    IF IsTile(w, e) THEN FlipTile(w, e) ELSE FlipTile(w, 1)

\* the query asking for CollisionLayers alone: balls and wall match it too
VisitEntity_LayersOnlyQuery(w, e) ==
    IF IsTile(w, e) THEN FlipTile(w, e)
    ELSE [w EXCEPT !.layers[e] = TeamBLayers]

\* the body of the inner loop for one entity
VisitEntity(w, e) == IF IsTile(w, e) THEN FlipTile(w, e) ELSE w

\* for entity in colliding_entities.iter() { ... }, in iteration order seq
RECURSIVE VisitAll(_, _)
VisitAll(w, seq) ==
    IF seq = <<>> THEN w ELSE VisitAll(VisitEntity(w, Head(seq)), Tail(seq))

\* the orders in which a set can be iterated
RECURSIVE Orders(_)
Orders(S) ==
    IF S = {} THEN {<<>>}
    ELSE UNION {{<<e>> \o rest : rest \in Orders(S \ {e})} : e \in S}

\* the outer loop left after its first ball
BallCollision_FirstBallOnly ==
    /\ pc = "update"
    /\ \E bs \in Orders(Balls) :
       \E s1 \in Orders(colliding[bs[1]]) :
          LET start == [World EXCEPT !.flips = [t \in DOMAIN flips |-> 0]]
              w     == VisitAll(start, s1)
          IN /\ texture_index' = w.texture_index
             /\ layers' = w.layers
             /\ flips' = w.flips
    /\ runs' = runs + 1
    /\ pc' = "physics"
    /\ UNCHANGED <<tile_pos, transform, velocity, colliding, tick>>

\* ball_collision: the query over the balls and each ball's CollidingEntities
\* (a hash set) are iterated in an order the program does not choose
BallCollision ==
    /\ pc = "update"
    /\ \E bs \in Orders(Balls) :
       \E s1 \in Orders(colliding[bs[1]]) :
       \E s2 \in Orders(colliding[bs[2]]) :
          LET start == [World EXCEPT !.flips = [t \in DOMAIN flips |-> 0]]
              w     == VisitAll(VisitAll(start, s1), s2)
          IN /\ texture_index' = w.texture_index
             /\ layers' = w.layers
             /\ flips' = w.flips
    /\ runs' = runs + 1
    /\ pc' = "physics"
    /\ UNCHANGED <<tile_pos, transform, velocity, colliding, tick>>

(****************************** physics step *******************************)

Sgn(n) == IF n > 0 THEN 1 ELSE IF n < 0 THEN -1 ELSE 0

Abs(n) == IF n < 0 THEN -n ELSE n

\* centre of a tile's Collider::rectangle(tile_size.x, tile_size.y)
TileCentre(t) == [x |-> 2 * tile_pos[t].x + 1, y |-> 2 * tile_pos[t].y + 1]

\* Collider::circle(7.5) at p against a tile's rectangle: the disc reaches
\* into the tile iff its centre is less than two units from the tile's centre
\* on both axes
Overlaps(p, t) ==
    /\ Abs(p.x - TileCentre(t).x) < 2
    /\ Abs(p.y - TileCentre(t).y) < 2

\* Collider::polyline over (-size, -size) .. (size, size): the disc at
\* coordinate c (of its centre) lies within the segments of that axis
WithinWallX(c) == c >= 1 /\ c <= 2 * GridW - 1

WithinWallY(c) == c >= 1 /\ c <= 2 * GridH - 1

BallsOverlap(p, q) == Abs(p.x - q.x) < 2 /\ Abs(p.y - q.y) < 2

\* the bodies the collision layers let ball b touch
Accepted(b) == {e \in Entities \ {b} : Interacts(layers[b], layers[e])}

\* the accepted tiles a disc centred at p reaches into
TileHits(b, p) == {t \in DOMAIN tile_pos \cap Accepted(b) : Overlaps(p, t)}

\* Restitution::new(0.): the normal velocity is absorbed
Bounce_Inelastic(vn) == 0 * vn

\* normal velocity after a contact (Restitution, CoefficientCombine::Max)
Bounce(vn) == -(Restitution * vn)

\* tangential velocity after a contact (Friction, CoefficientCombine::Min)
Slide(vt) == vt - Friction * vt

\* One step of ball b against the static bodies.  adv: whether the ball has
\* covered a lattice unit in this step.  A move that would reach into an
\* accepted tile or cross the wall is taken back on that axis and the
\* velocity reflected (a corner counts for x).  hits: the static bodies in
\* contact.
Move(b, adv) ==
    LET p  == transform[b]
        v  == [x |-> velocity[b].x + Gravity.x, y |-> velocity[b].y + Gravity.y]
        q  == IF adv THEN [x |-> p.x + Sgn(v.x), y |-> p.y + Sgn(v.y)] ELSE p
        wallOn == Wall \in Accepted(b)
        hitX  == IF q.x # p.x THEN TileHits(b, [x |-> q.x, y |-> p.y]) ELSE {}
        hitY  == IF q.y # p.y THEN TileHits(b, [x |-> p.x, y |-> q.y]) ELSE {}
        wallX == wallOn /\ q.x # p.x /\ ~WithinWallX(q.x)
        wallY == wallOn /\ q.y # p.y /\ ~WithinWallY(q.y)
        hitC  == IF hitX = {} /\ hitY = {} /\ ~wallX /\ ~wallY /\ q # p
                 THEN TileHits(b, q) ELSE {}
        blockX == hitX # {} \/ wallX \/ (hitC # {} /\ q.x # p.x)
        blockY == hitY # {} \/ wallY \/ (hitC # {} /\ q.x = p.x)
    IN [pos  |-> [x |-> IF blockX THEN p.x ELSE q.x,
                  y |-> IF blockY THEN p.y ELSE q.y],
        vel  |-> [x |-> IF blockX THEN Bounce(v.x)
                        ELSE IF blockY THEN Slide(v.x) ELSE v.x,
                  y |-> IF blockY THEN Bounce(v.y)
                        ELSE IF blockX THEN Slide(v.y) ELSE v.y],
        hits |-> hitX \cup hitY \cup hitC \cup TileHits(b, p)
                   \cup (IF wallX \/ wallY THEN {Wall} ELSE {})]

\* contact normal from ball a to ball b, to the nearest of the eight
\* lattice directions
Normal(d) ==
    IF Abs(d.x) = Abs(d.y) THEN [x |-> Sgn(d.x), y |-> Sgn(d.y)]
    ELSE IF Abs(d.x) > Abs(d.y) THEN [x |-> Sgn(d.x), y |-> 0]
    ELSE [x |-> 0, y |-> Sgn(d.y)]

Dot(u, w) == u.x * w.x + u.y * w.y

\* two dynamic bodies of equal mass: the velocity components along the
\* normal n are exchanged (Restitution 1) when the bodies approach
Exchange(va, vb, n) ==
    LET a == Dot(va, n)
        b == Dot(vb, n)
        k == ((1 + Restitution) * (b - a)) \div (2 * Dot(n, n))
    IN IF a - b > 0
       THEN [a |-> [x |-> va.x + k * n.x, y |-> va.y + k * n.y],
             b |-> [x |-> vb.x - k * n.x, y |-> vb.y - k * n.y]]
       ELSE [a |-> va, b |-> vb]

\* One step of the physics schedule.  CollidingEntities of each ball is
\* written anew from the contacts of the step.
StepWorld ==
    /\ \E adv \in [Balls -> BOOLEAN] :
         LET mA == Move(BallA, adv[BallA])
             mB == Move(BallB, adv[BallB])
             touch == /\ BallB \in Accepted(BallA)
                      /\ BallsOverlap(mA.pos, mB.pos)
             n  == Normal([x |-> transform[BallB].x - transform[BallA].x,
                           y |-> transform[BallB].y - transform[BallA].y])
             ex == Exchange(mA.vel, mB.vel, n)
         IN /\ transform' = IF touch THEN transform
                            ELSE [b \in Balls |-> IF b = BallA THEN mA.pos ELSE mB.pos]
            /\ velocity' = [b \in Balls |->
                              IF touch THEN (IF b = BallA THEN ex.a ELSE ex.b)
                              ELSE (IF b = BallA THEN mA.vel ELSE mB.vel)]
            /\ colliding' = [b \in Balls |->
                               (IF b = BallA THEN mA.hits ELSE mB.hits)
                               \cup (IF touch THEN Balls \ {b} ELSE {})]
    /\ runs' = 0
    /\ UNCHANGED <<texture_index, layers, tile_pos, flips>>

\* PhysicsPlugins: the frame's physics schedule runs one step.
PhysicsStep ==
    /\ pc = "physics"
    /\ tick < MaxTicks
    /\ StepWorld
    /\ pc' = "update"
    /\ tick' = tick + 1

Next == BallCollision \/ PhysicsStep

Spec == Init /\ [][Next]_vars

(************************* frames and physics steps ************************)

\* ball_collision is a system of Update and runs once in every frame; the
\* physics schedule of PhysicsPlugins::default() runs later in the frame, on
\* a fixed timestep of its own: one step once the frames' time has added up
\* to a timestep, none before.

\* a frame shorter than the time left to the next physics step: no step
\* runs and CollidingEntities stays as the last step wrote it
FrameWithoutStep ==
    /\ pc = "physics"
    /\ tick < MaxTicks
    /\ pc' = "update"
    /\ tick' = tick + 1
    /\ UNCHANGED <<texture_index, layers, tile_pos, transform, velocity,
                   colliding, flips, runs>>

NextFrames == BallCollision \/ PhysicsStep \/ FrameWithoutStep

SpecFrames == Init /\ [][NextFrames]_vars

(********************* ball_collision over its inputs **********************)

\* the tiles offered to ball_collision as colliding entities: the first tile
\* spawned (team A) and the last (team B)
PassTiles == {1, NumTiles}

\* the entities a ball's CollidingEntities is drawn from
PassEntities(b) == PassTiles \cup (Balls \ {b}) \cup {Wall}

\* the arguments of ball_collision: any CollidingEntities for each ball
AnyContacts ==
    /\ pc = "physics"
    /\ \E ca \in SUBSET PassEntities(BallA) :
       \E cb \in SUBSET PassEntities(BallB) :
          colliding' = [b \in Balls |-> IF b = BallA THEN ca ELSE cb]
    /\ runs' = 0
    /\ pc' = "update"
    /\ UNCHANGED <<texture_index, layers, tile_pos, transform, velocity, flips, tick>>

NextPass == BallCollision \/ AnyContacts

SpecPass == Init /\ [][NextPass]_vars

(******************************** claims ***********************************)

\* the team of a ball as a texture index: Player1 is team A (0), Player2 is
\* team B (1)
BallTeam(b) == IF "Player1" \in layers[b].memberships THEN 0 ELSE 1

\* a run of ball_collision has just changed tile t
JustFlipped(t) == pc = "physics" /\ flips[t] > 0

\* C1: in every reachable state every tile's filter agrees with its texture
\* index: index 0 goes with membership {Player1} and acceptance {Player2},
\* index 1 with membership {Player2} and acceptance {Player1}.
C1_FilterMatchesTeam ==
    \A t \in DOMAIN texture_index :
       /\ texture_index[t] \in {0, 1}
       /\ texture_index[t] = 0 =>
            layers[t] = [memberships |-> {"Player1"}, filters |-> {"Player2"}]
       /\ texture_index[t] = 1 =>
            layers[t] = [memberships |-> {"Player2"}, filters |-> {"Player1"}]

\* C1 witness: ball_collision has flipped a tile of each team
C1_Witness ==
    /\ \E t \in DOMAIN texture_index :
          JustFlipped(t) /\ texture_index[t] = 0
    /\ \E t \in DOMAIN texture_index :
          JustFlipped(t) /\ texture_index[t] = 1

\* C2 as stated: the filters of the two balls reject the ball-ball pair and
\* neither ball is among the other's colliding entities.
C2_Original ==
    /\ ~Interacts(layers[BallA], layers[BallB])
    /\ BallB \notin colliding[BallA]
    /\ BallA \notin colliding[BallB]

\* C2 as amended: in every reachable state the filters of the two balls
\* accept the ball-ball pair under the symmetric conjunction: ball A's
\* membership meets ball B's acceptance and ball B's membership meets ball
\* A's acceptance.
C2_BallsAcceptEachOther ==
    /\ layers[BallA].memberships \cap layers[BallB].filters # {}
    /\ layers[BallB].memberships \cap layers[BallA].filters # {}
    /\ BallB \in Accepted(BallA)
    /\ BallA \in Accepted(BallB)

\* C2 witness: after a physics step the two discs are as close as the tiles
\* let them come (two units apart: tangent)
C2_Witness ==
    /\ pc = "update"
    /\ tick > 0
    /\ Abs(transform[BallA].x - transform[BallB].x) <= 2
    /\ Abs(transform[BallA].y - transform[BallB].y) <= 2

AllTilesInitial ==
    \A t \in DOMAIN texture_index :
       texture_index[t] = (IF tile_pos[t].x < (GridW \div 2) THEN 0 ELSE 1)

PassStep == pc = "update" /\ pc' = "physics"

\* the tiles both balls list
ListedByBoth == colliding[BallA] \cap colliding[BallB] \cap DOMAIN texture_index

C5_OnlyOpposingTiles ==
    \A b \in Balls :
       /\ \A t \in DOMAIN texture_index :
             Interacts(layers[b], layers[t]) <=> texture_index[t] # BallTeam(b)
       /\ Interacts(layers[b], layers[Wall])
       /\ (pc = "update" /\ runs = 0) =>
             \A t \in colliding[b] \cap DOMAIN texture_index :
                texture_index[t] # BallTeam(b)

\* C5 witness: a physics step has produced a contact between a ball and a
\* tile that is no longer on the team it was spawned on
C5_Witness ==
    /\ pc = "update"
    /\ \E b \in Balls : \E t \in colliding[b] \cap DOMAIN texture_index :
          texture_index[t] # (IF tile_pos[t].x < (GridW \div 2) THEN 0 ELSE 1)

RECURSIVE Ascending(_)
Ascending(S) ==
    IF S = {} THEN <<>>
    ELSE LET m == CHOOSE x \in S : \A y \in S : x <= y
         IN <<m>> \o Ascending(S \ {m})

\* the world ball_collision leaves when it visits ball A before ball B
\* and each ball's colliding entities in ascending order
FixedOrderPass ==
    VisitAll(VisitAll([World EXCEPT !.flips = [t \in DOMAIN flips |-> 0]],
                      Ascending(colliding[BallA])),
             Ascending(colliding[BallB]))

C9_TilesFixed ==
    /\ [](/\ Cardinality(DOMAIN tile_pos) = GridW * GridH
          /\ DOMAIN texture_index = DOMAIN tile_pos
          /\ \A x \in 0 .. GridW - 1 : \A y \in 0 .. GridH - 1 :
                Cardinality({t \in DOMAIN tile_pos :
                               tile_pos[t] = [x |-> x, y |-> y]}) = 1)
    /\ [][/\ tile_pos' = tile_pos
          /\ DOMAIN texture_index' = DOMAIN texture_index]_vars

\* C9 witness: tiles have been flipped over several frames
C9_Witness ==
    /\ tick >= 3
    /\ \E t \in DOMAIN texture_index : JustFlipped(t)
    /\ \E t \in DOMAIN texture_index :
          texture_index[t] # (IF tile_pos[t].x < (GridW \div 2) THEN 0 ELSE 1)

\* C10: once ball_collision has run, every tile among a ball's colliding
\* entities is on that ball's team, texture index and filter alike.
C10_TileTakesBallTeam ==
    pc = "physics" =>
       \A b \in Balls : \A t \in colliding[b] \cap DOMAIN texture_index :
          /\ texture_index[t] = BallTeam(b)
          /\ layers[t] = (IF BallTeam(b) = 0
                          THEN [memberships |-> {"Player1"}, filters |-> {"Player2"}]
                          ELSE [memberships |-> {"Player2"}, filters |-> {"Player1"}])

\* C10 witness: ball_collision has run over a contact of ball A with one
\* tile and that tile alone
C10_Witness ==
    /\ pc = "physics"
    /\ Cardinality(colliding[BallA] \cap DOMAIN texture_index) = 1
    /\ colliding[BallB] \cap DOMAIN texture_index = {}

\* a physics step is taken: CollidingEntities is written anew
StepTaken == tick' = tick + 1 /\ runs' = 0

\* C11: the contacts one physics step reports are consumed by exactly one
\* run of ball_collision before the next step: no physics step overwrites
\* a contact with a tile that no run has seen, and a run over contacts that
\* an earlier run has already consumed changes no tile again.
C11_ContactConsumedOnce ==
    [][/\ (StepTaken /\ runs = 0) =>
             \A b \in Balls : colliding[b] \cap DOMAIN texture_index = {}
       /\ (PassStep /\ runs > 0) =>
             /\ \A t \in DOMAIN flips : flips'[t] = 0
             /\ texture_index' = texture_index
             /\ layers' = layers]_vars

\* C12: a run of ball_collision whose colliding entities hold no tile (only
\* the wall or the other ball) leaves every tile's texture index and layers
\* as they were.
C12_NonTileContactFlipsNothing ==
    [][(PassStep /\ \A b \in Balls : colliding[b] \cap DOMAIN texture_index = {}) =>
          \A t \in DOMAIN texture_index :
             /\ texture_index'[t] = texture_index[t]
             /\ layers'[t] = layers[t]
             /\ flips'[t] = 0]_vars

\* C12 witness: ball_collision has run over the wall and the other ball,
\* with no tile among the colliding entities
C12_Witness ==
    /\ pc = "physics"
    /\ runs = 1
    /\ Wall \in colliding[BallA]
    /\ BallA \in colliding[BallB]
    /\ \A b \in Balls : colliding[b] \cap DOMAIN texture_index = {}

\* C13: in every reachable state ball A has membership {Player1} and filter
\* {Player2, All}, ball B membership {Player2} and filter {Player1, All},
\* the wall membership {All} and filter {Player1, Player2}.
C13_BallAndWallLayersFixed ==
    /\ layers[BallA] = [memberships |-> {"Player1"}, filters |-> {"Player2", "All"}]
    /\ layers[BallB] = [memberships |-> {"Player2"}, filters |-> {"Player1", "All"}]
    /\ layers[Wall]  = [memberships |-> {"All"}, filters |-> {"Player1", "Player2"}]

\* C13 witness: ball_collision has run with the other ball and the wall
\* among a ball's colliding entities, and has changed a tile in the same run
C13_Witness ==
    /\ pc = "physics"
    /\ runs = 1
    /\ {BallB, Wall} \subseteq colliding[BallA]
    /\ BallA \in colliding[BallB]
    /\ \E t \in DOMAIN flips : flips[t] > 0

\* C14: before the first physics step every grid coordinate (ix, iy) holds
\* one tile, on team A (texture index 0, membership {Player1}, filter
\* {Player2}) iff ix < GridW / 2 rounded down, i.e. iff 2 * (ix + 1) <=
\* GridW, and on team B otherwise; the spawn rule gives the same for every
\* map width up to MaxWidth, the middle column of an odd width going to
\* team B.
C14_InitialGrid ==
    /\ tick = 0 =>
          /\ \A ix \in 0 .. (GridW - 1) : \A iy \in 0 .. (GridH - 1) :
                Cardinality({t \in DOMAIN tile_pos :
                               tile_pos[t] = [x |-> ix, y |-> iy]}) = 1
          /\ \A t \in DOMAIN texture_index :
                IF 2 * (tile_pos[t].x + 1) <= GridW
                THEN /\ texture_index[t] = 0
                     /\ layers[t] = [memberships |-> {"Player1"}, filters |-> {"Player2"}]
                ELSE /\ texture_index[t] = 1
                     /\ layers[t] = [memberships |-> {"Player2"}, filters |-> {"Player1"}]
    /\ \A w \in 1 .. MaxWidth : \A ix \in 0 .. (w - 1) :
          IF 2 * (ix + 1) <= w
          THEN /\ TextureIndexOf(ix, w) = 0
               /\ TileLayersOf(ix, w) = [memberships |-> {"Player1"}, filters |-> {"Player2"}]
          ELSE /\ TextureIndexOf(ix, w) = 1
               /\ TileLayersOf(ix, w) = [memberships |-> {"Player2"}, filters |-> {"Player1"}]
    /\ \A w \in 1 .. MaxWidth :
          w % 2 = 1 => /\ TextureIndexOf((w - 1) \div 2, w) = 1
                       /\ TileLayersOf((w - 1) \div 2, w).memberships = {"Player2"}

\* C14 witness: the world as startup leaves it, with the last column of the
\* left half on team A and the first column of the right half on team B
C14_Witness ==
    /\ tick = 0
    /\ runs = 0
    /\ \E t \in DOMAIN texture_index :
          tile_pos[t].x = (GridW \div 2) - 1 /\ texture_index[t] = 0
    /\ \E t \in DOMAIN texture_index :
          tile_pos[t].x = GridW \div 2 /\ texture_index[t] = 1

\* C15: the flip of ball_collision is an involution on every tile of every
\* reachable state, whichever team the tile is on: one flip changes the
\* tile's texture index and layers, a second one restores both.
C15_FlipIsInvolution ==
    \A t \in DOMAIN texture_index :
       LET once  == FlipTile(World, t)
           twice == FlipTile(once, t)
       IN /\ once.texture_index[t] # texture_index[t]
          /\ once.layers[t] # layers[t]
          /\ twice.texture_index = texture_index
          /\ twice.layers = layers
          /\ twice.flips[t] = flips[t] + 2

\* C15 witness: a run of ball_collision has flipped one tile twice, and
\* tiles of both teams are there to flip
C15_Witness ==
    /\ pc = "physics"
    /\ \E t \in DOMAIN flips : flips[t] = 2
    /\ \E t \in DOMAIN texture_index : texture_index[t] = 0
    /\ \E t \in DOMAIN texture_index : texture_index[t] = 1

\* the number of balls whose colliding entities hold tile t
Listings(t) == Cardinality({b \in Balls : t \in colliding[b]})

\* C16: one run of ball_collision toggles each tile once for every ball
\* that lists it, whichever ball that is and in whatever order the balls
\* and entities are visited: the tile's texture index and layers after the
\* run are those of the other team iff the number of listings is odd.
C16_ToggleByParity ==
    [][PassStep =>
         \A t \in DOMAIN texture_index :
            /\ flips'[t] = Listings(t)
            /\ texture_index'[t] = (texture_index[t] + Listings(t)) % 2
            /\ (layers'[t] = layers[t]) <=> (Listings(t) % 2 = 0)
            /\ layers'[t] = (IF texture_index'[t] = 0
                             THEN [memberships |-> {"Player1"}, filters |-> {"Player2"}]
                             ELSE [memberships |-> {"Player2"}, filters |-> {"Player1"}])]_vars

\* C16 witness: in one run a tile listed by one ball has changed team and
\* a tile listed by both balls has not
C16_Witness ==
    /\ pc = "physics"
    /\ \E t \in DOMAIN texture_index :
          /\ Listings(t) = 1
          /\ flips[t] = 1
          /\ texture_index[t] # (IF tile_pos[t].x < (GridW \div 2) THEN 0 ELSE 1)
    /\ \E t \in DOMAIN texture_index :
          /\ Listings(t) = 2
          /\ flips[t] = 2
          /\ texture_index[t] = (IF tile_pos[t].x < (GridW \div 2) THEN 0 ELSE 1)

====
